---- MODULE Spec2Model ----
(***************************************************************************)
(* Cart-and-coupon pricing engine of the Urban Hub backend.                *)
(*                                                                         *)
(*   src/src/models/cart.model.js      cart document and its methods       *)
(*   src/src/models/coupon.model.js    coupon document and its methods     *)
(*   src/unnamed/part_005              cart controller (request handlers)  *)
(*   src/src/controllers/coupon.controller.js, src/unnamed/part_007        *)
(*                                     admin writes to coupons / products  *)
(*                                                                         *)
(* Every request handler is one action.  A handler loads the cart, runs    *)
(* the model methods on the in-memory document and saves it; save runs the *)
(* schema validators and a validation failure is caught by the handler's   *)
(* try/catch and answered with status 500 without writing anything.        *)
(*                                                                         *)
(* Product references are compared by id, as the handlers' toString()      *)
(* comparisons are written to do.                                          *)
(***************************************************************************)
EXTENDS Integers, Sequences, FiniteSets, TLC

(***************************************************************************)
(* Bounds of the model.                                                    *)
(***************************************************************************)
MaxStock == 2      \* product stock ranges over 0..MaxStock
MaxTime == 2       \* the clock ranges over 1..MaxTime
MaxAdminOps == 2   \* admin writes to the catalog and the coupon directory
MaxUsage == 2     \* coupon usage counts and limits range over 0..MaxUsage
MaxCatalogWrites == 1   \* of which catalog writes in Spec
MaxConcRequests == 2    \* requests of each client under overlapping requests

(***************************************************************************)
(* JavaScript values that are not numbers, encoded outside the range of    *)
(* the numbers the program computes (all of which are >= 0).               *)
(***************************************************************************)
Undefined == 0 - 1     \* undefined: a property read off a number
NaN == 0 - 2           \* NaN: arithmetic on undefined
NullNum == 0 - 3       \* null in a Number field (maxUsage)
Null == [type |-> "null"]   \* null document / sub-document

IsNumber(v) == v >= 0

Max(a, b) == IF a >= b THEN a ELSE b
Min(a, b) == IF a <= b THEN a ELSE b

\* Math.max(0, a - b) on JavaScript numbers
MathMax0Minus(a, b) ==
    IF IsNumber(a) /\ IsNumber(b) THEN Max(0, a - b) ELSE NaN

\* Math.round(n / 100) for n >= 0: halves round up
MathRoundDiv100(n) == (2 * n + 100) \div 200

RECURSIVE SeqSum(_)
SeqSum(s) == IF s = <<>> THEN 0 ELSE Head(s) + SeqSum(Tail(s))

(***************************************************************************)
(* Identifiers.                                                            *)
(***************************************************************************)
ProductIds == {"p1", "p2"}          \* products in the catalog
UnknownProductId == "p9"            \* well-formed id, no such product
MalformedId == "bad"                \* fails mongoose.isValidObjectId
UserIds == {"u1"}
SessionIds == {"g1"}
CartKeys == UserIds \cup SessionIds
CouponCodes == {"SAVE"}
Prices == {0, 4}
DiscountValues == {10, 100}
\* The _id of a cart item, generated when the item is pushed.  items.id()
\* looks an item up inside one cart only, so the model names the _id after the
\* product of the item, which is unique among the items of one cart as long
\* as addItem and mergeWith keep one item per product.
NewItemId(productId) ==
    CASE productId = "p1" -> "i-p1"
      [] productId = "p2" -> "i-p2"
ItemIds == {NewItemId(p) : p \in ProductIds}

isValidObjectId(id) == id \notin {MalformedId, ""}

\* String.prototype.toUpperCase on the codes a request can carry
toUpperCase(code) ==
    CASE code = "save" -> "SAVE"
      [] code = "SAVE" -> "SAVE"
      [] code = "nope" -> "NOPE"
      [] OTHER -> code

(***************************************************************************)
(* State.                                                                  *)
(***************************************************************************)
VARIABLES
    products,   \* Product collection: id -> [title, isActive, stock, price]
    coupons,    \* Coupon collection: code -> coupon document or Null
    carts,      \* Cart collection: userId / sessionId -> cart document or Null
    now,        \* new Date()
    res,        \* response of the request being answered, NoResponse between requests
    adminOps,   \* number of admin writes so far
    calc,       \* a call of a model method on its own: arguments and result
    collection, \* Cart collection under overlapping requests: the documents
                \* in insertion order, several per identity possible
    inflight,   \* overlapping requests: client -> the handler's position and
                \* the documents it has loaded
    unitsAdded  \* history: units of each product stored by addToCart so far

vars == <<products, coupons, carts, now, res, adminOps, calc,
          collection, inflight, unitsAdded>>

(***************************************************************************)
(* Coupon model (coupon.model.js).                                         *)
(***************************************************************************)
Coupon_isValid(coupon, t) ==
    LET isDateValid == t >= coupon.startDate /\ t <= coupon.endDate
        isUsageValid == (coupon.maxUsage = NullNum \/ coupon.maxUsage = 0)
                        \/ coupon.usageCount < coupon.maxUsage
    IN coupon.isActive /\ isDateValid /\ isUsageValid

Coupon_isApplicableToProducts(coupon, productIds) ==
    \E i \in DOMAIN productIds : productIds[i] \in coupon.applicableProducts

\* the value `0` returned by the two early returns
NumberZero == [type |-> "number", value |-> 0]

ItemTotals(items) == [i \in DOMAIN items |-> items[i].priceAtAdd * items[i].quantity]

Coupon_calculateDiscount(coupon, cartItems, t) ==
    IF ~Coupon_isValid(coupon, t) THEN NumberZero
    ELSE
      LET Applicable(item) == item.productId \in coupon.applicableProducts
          applicableItems == SelectSeq(cartItems, Applicable)
          applicableSubtotal == SeqSum(ItemTotals(applicableItems))
          discountAmount ==
              IF coupon.discountType = "percentage"
              THEN MathRoundDiv100(applicableSubtotal * coupon.discountValue)
              ELSE 0
      IN IF applicableSubtotal = 0 THEN NumberZero
         ELSE [type |-> "object",
               discountAmount |-> discountAmount,
               applicableSubtotal |-> applicableSubtotal,
               applicableItems |-> applicableItems]

\* discountCalculation.discountAmount
DiscountAmountOf(discountCalculation) ==
    IF discountCalculation.type = "object"
    THEN discountCalculation.discountAmount
    ELSE Undefined

(***************************************************************************)
(* Cart model (cart.model.js).                                             *)
(***************************************************************************)
NewCart ==
    [items |-> <<>>, subtotal |-> 0, coupon |-> Null,
     totalDiscount |-> 0, finalTotal |-> 0]

Cart_calculateSubtotal(cart) ==
    [cart EXCEPT !.subtotal = SeqSum(ItemTotals(cart.items))]

\* calculateFinalTotal without the refresh of totalDiscount
Cart_calculateFinalTotal_KeepDiscount(cart) ==
    LET c1 == Cart_calculateSubtotal(cart)
    IN [c1 EXCEPT !.finalTotal = MathMax0Minus(c1.subtotal, c1.totalDiscount)]

Cart_calculateFinalTotal(cart) ==
    LET c1 == Cart_calculateSubtotal(cart)
        totalDiscount == IF c1.coupon # Null THEN c1.coupon.discountAmount ELSE 0
    IN [c1 EXCEPT !.totalDiscount = totalDiscount,
                  !.finalTotal = MathMax0Minus(c1.subtotal, totalDiscount)]

IndexOfProduct(items, productId) ==
    IF \E i \in DOMAIN items : items[i].productId = productId
    THEN CHOOSE i \in DOMAIN items :
            /\ items[i].productId = productId
            /\ \A j \in DOMAIN items : items[j].productId = productId => i <= j
    ELSE 0

\* productData is [id, title, price, ...]; newId is the _id the new
\* sub-document gets
\* addItem refreshing the price of an item already in the cart
Cart_addItem_RefreshPrice(cart, productData, quantity, price, newId) ==
    LET existingItemIndex == IndexOfProduct(cart.items, productData.id)
        items ==
          IF existingItemIndex > 0
          THEN [cart.items EXCEPT ![existingItemIndex].quantity = @ + quantity,
                                  ![existingItemIndex].priceAtAdd = price]
          ELSE Append(cart.items,
                      [id |-> newId, productId |-> productData.id,
                       title |-> productData.title,
                       quantity |-> quantity, priceAtAdd |-> price])
    IN Cart_calculateFinalTotal([cart EXCEPT !.items = items])

\* addItem pushing a new item whether or not the product is in the cart
Cart_addItem_Push(cart, productData, quantity, price, newId) ==
    Cart_calculateFinalTotal(
        [cart EXCEPT !.items =
            Append(cart.items,
                   [id |-> newId, productId |-> productData.id,
                    title |-> productData.title,
                    quantity |-> quantity, priceAtAdd |-> price])])

Cart_addItem(cart, productData, quantity, price, newId) ==
    LET existingItemIndex == IndexOfProduct(cart.items, productData.id)
        items ==
          IF existingItemIndex > 0
          THEN [cart.items EXCEPT ![existingItemIndex].quantity = @ + quantity]
          ELSE Append(cart.items,
                      [id |-> newId, productId |-> productData.id,
                       title |-> productData.title,
                       quantity |-> quantity, priceAtAdd |-> price])
    IN Cart_calculateFinalTotal([cart EXCEPT !.items = items])

\* removeItem written as items.splice(items.findIndex(...), 1): an index of
\* -1 (no such item) removes the last item
Cart_removeItem_Splice(cart, itemId) ==
    LET found == {k \in DOMAIN cart.items : cart.items[k].id = itemId}
        index == IF found = {} THEN Len(cart.items)
                 ELSE CHOOSE k \in found : TRUE
        c1 == Cart_calculateFinalTotal(
                [cart EXCEPT !.items =
                    [k \in 1 .. Len(cart.items) - (IF index > 0 THEN 1 ELSE 0)
                       |-> IF k < index THEN cart.items[k]
                           ELSE cart.items[k + 1]]])
    IN IF c1.coupon # Null /\ Len(c1.items) > 0
       THEN LET hasApplicableProducts ==
                    \E i \in DOMAIN c1.items :
                        c1.items[i].productId \in c1.coupon.applicableProducts
            IN IF ~hasApplicableProducts
               THEN Cart_calculateFinalTotal([c1 EXCEPT !.coupon = Null])
               ELSE c1
       ELSE IF Len(c1.items) = 0
            THEN Cart_calculateFinalTotal([c1 EXCEPT !.coupon = Null])
            ELSE c1

\* removeItem without its `else if (this.items.length === 0)` branch
Cart_removeItem_KeepOnEmpty(cart, itemId) ==
    LET Keep(item) == item.id # itemId
        c1 == Cart_calculateFinalTotal(
                [cart EXCEPT !.items = SelectSeq(cart.items, Keep)])
    IN IF c1.coupon # Null /\ Len(c1.items) > 0
       THEN LET hasApplicableProducts ==
                    \E i \in DOMAIN c1.items :
                        c1.items[i].productId \in c1.coupon.applicableProducts
            IN IF ~hasApplicableProducts
               THEN Cart_calculateFinalTotal([c1 EXCEPT !.coupon = Null])
               ELSE c1
       ELSE c1

Cart_removeItem(cart, itemId) ==
    LET Keep(item) == item.id # itemId
        c1 == Cart_calculateFinalTotal(
                [cart EXCEPT !.items = SelectSeq(cart.items, Keep)])
    IN IF c1.coupon # Null /\ Len(c1.items) > 0
       THEN LET hasApplicableProducts ==
                    \E i \in DOMAIN c1.items :
                        c1.items[i].productId \in c1.coupon.applicableProducts
            IN IF ~hasApplicableProducts
               THEN Cart_calculateFinalTotal([c1 EXCEPT !.coupon = Null])
               ELSE c1
       ELSE IF Len(c1.items) = 0
            THEN Cart_calculateFinalTotal([c1 EXCEPT !.coupon = Null])
            ELSE c1

Cart_updateItemQuantity(cart, itemId, newQuantity) ==
    IF newQuantity <= 0 THEN Cart_removeItem(cart, itemId)
    ELSE IF \E i \in DOMAIN cart.items : cart.items[i].id = itemId
         THEN LET i == CHOOSE k \in DOMAIN cart.items : cart.items[k].id = itemId
              IN Cart_calculateFinalTotal(
                    [cart EXCEPT !.items[i].quantity = newQuantity])
         ELSE cart

Cart_clearCart(cart) ==
    Cart_calculateFinalTotal([cart EXCEPT !.items = <<>>, !.coupon = Null])

Cart_applyCoupon(cart, couponData, discountCalculation) ==
    Cart_calculateFinalTotal(
        [cart EXCEPT !.coupon =
            [code |-> couponData.code,
             discountType |-> couponData.discountType,
             discountValue |-> couponData.discountValue,
             discountAmount |-> DiscountAmountOf(discountCalculation),
             applicableProducts |-> couponData.applicableProducts]])

Cart_removeCoupon(cart) ==
    Cart_calculateFinalTotal([cart EXCEPT !.coupon = Null])

\* mergeWith keeping the receiver's priceAtAdd on a common product
RECURSIVE MergeItems_KeepPrice(_, _)
MergeItems_KeepPrice(items, otherItems) ==
    IF otherItems = <<>> THEN items
    ELSE LET otherItem == Head(otherItems)
             existingItemIndex == IndexOfProduct(items, otherItem.productId)
             merged ==
               IF existingItemIndex > 0
               THEN [items EXCEPT
                       ![existingItemIndex].quantity = @ + otherItem.quantity]
               ELSE Append(items, otherItem)
         IN MergeItems_KeepPrice(merged, Tail(otherItems))

RECURSIVE MergeItems(_, _)
MergeItems(items, otherItems) ==
    IF otherItems = <<>> THEN items
    ELSE LET otherItem == Head(otherItems)
             existingItemIndex == IndexOfProduct(items, otherItem.productId)
             merged ==
               IF existingItemIndex > 0
               THEN [items EXCEPT
                       ![existingItemIndex].quantity = @ + otherItem.quantity,
                       ![existingItemIndex].priceAtAdd = otherItem.priceAtAdd]
               ELSE Append(items, otherItem)
         IN MergeItems(merged, Tail(otherItems))

Cart_mergeWith(cart, otherCart) ==
    IF otherCart = Null THEN cart
    ELSE Cart_calculateFinalTotal(
            [cart EXCEPT !.items = MergeItems(cart.items, otherCart.items),
                         !.coupon = Null])

(***************************************************************************)
(* cart.save(): the schema validators (cart.model.js lines 31-40, 63-71,   *)
(* 98-116).  A document that fails them is not written.                    *)
(***************************************************************************)
\* the validators without `min: [1, ...]` on quantity
SchemaValid_NoMinQuantity(cart) ==
    /\ \A i \in DOMAIN cart.items : cart.items[i].priceAtAdd >= 0
    /\ cart.coupon # Null => cart.coupon.discountAmount >= 0
    /\ cart.subtotal >= 0
    /\ cart.totalDiscount >= 0
    /\ cart.finalTotal >= 0

SchemaValid(cart) ==
    /\ \A i \in DOMAIN cart.items :
          /\ cart.items[i].quantity >= 1
          /\ cart.items[i].priceAtAdd >= 0
    /\ cart.coupon # Null => cart.coupon.discountAmount >= 0
    /\ cart.subtotal >= 0
    /\ cart.totalDiscount >= 0
    /\ cart.finalTotal >= 0

(***************************************************************************)
(* Cart controller (part_005).                                             *)
(***************************************************************************)
Response(op, status, message) ==
    [op |-> op, status |-> status, message |-> message, error |-> "",
     maxAllowed |-> Undefined, removedItems |-> <<>>]

ServerError(op, message, error) ==
    [Response(op, 500, message) EXCEPT !.error = error]

\* Product.findById
Product_findById(productId) ==
    IF productId \in DOMAIN products THEN products[productId] ELSE Null

\* Coupon.findOne({ code })
Coupon_findOne(code) ==
    IF code \in DOMAIN coupons THEN coupons[code] ELSE Null

\* the key under which getOrCreateCart looks the cart up; "" when it throws
CartKeyOf(userId, sessionId) ==
    IF userId # "" THEN userId
    ELSE IF sessionId # "" THEN sessionId
    ELSE ""

getOrCreateCart(userId, sessionId) ==
    LET key == CartKeyOf(userId, sessionId)
    IN IF carts[key] = Null THEN NewCart ELSE carts[key]

\* cart.save() inside the handler's try block
Save(op, key, cart, okResponse, failMessage) ==
    IF SchemaValid(cart)
    THEN [carts |-> [carts EXCEPT ![key] = cart], res |-> okResponse]
    ELSE [carts |-> carts,
          res |-> ServerError(op, failMessage, "Cart validation failed")]

Reply(response) == [carts |-> carts, res |-> response]

\* threw: the `throw new Error(... is not available)` of an inactive product
validateStock(product, requestedQuantity, existingQuantity) ==
    LET totalQuantity == existingQuantity + requestedQuantity
    IN IF ~product.isActive
       THEN [threw |-> TRUE, valid |-> FALSE, maxAllowed |-> Undefined]
       ELSE IF totalQuantity > product.stock
       THEN [threw |-> FALSE, valid |-> FALSE,
             maxAllowed |-> Max(0, product.stock - existingQuantity)]
       ELSE [threw |-> FALSE, valid |-> TRUE, maxAllowed |-> Undefined]

ExistingQuantity(cart, productId) ==
    LET i == IndexOfProduct(cart.items, productId)
    IN IF i > 0 THEN cart.items[i].quantity ELSE 0

\* addToCart, lines 112-126
addToCart_revalidateCoupon(cart, productId) ==
    IF cart.coupon # Null
    THEN LET coupon == Coupon_findOne(cart.coupon.code)
         IN IF \/ coupon = Null
               \/ ~Coupon_isValid(coupon, now)
               \/ ~Coupon_isApplicableToProducts(coupon, <<productId>>)
            THEN Cart_removeCoupon(cart)
            ELSE Cart_applyCoupon(cart, coupon,
                    Coupon_calculateDiscount(coupon, cart.items, now))
    ELSE cart

addToCartResult(userId, sessionId, productId, quantity) ==
    LET op == "addToCart"
        fail == "Failed to add item to cart"
    IN
    IF productId = "" THEN Reply(Response(op, 400, "Product ID is required"))
    ELSE IF ~isValidObjectId(productId)
    THEN Reply(Response(op, 400, "Invalid product ID"))
    ELSE IF quantity < 1
    THEN Reply(Response(op, 400, "Quantity must be at least 1"))
    ELSE IF Product_findById(productId) = Null
    THEN Reply(Response(op, 404, "Product not found"))
    ELSE IF CartKeyOf(userId, sessionId) = ""
    THEN Reply(ServerError(op, fail, "Either userId or sessionId is required"))
    ELSE
      LET product == Product_findById(productId)
          key == CartKeyOf(userId, sessionId)
          cart == getOrCreateCart(userId, sessionId)
          existingQuantity == ExistingQuantity(cart, productId)
          stockValidation == validateStock(product, quantity, existingQuantity)
      IN IF stockValidation.threw
         THEN Reply(ServerError(op, fail, "Product is not available"))
         ELSE IF ~stockValidation.valid
         THEN Reply([Response(op, 400, "Only units available")
                        EXCEPT !.maxAllowed = stockValidation.maxAllowed])
         ELSE
           LET c1 == Cart_addItem(cart, product, quantity, product.price,
                                  NewItemId(productId))
               c2 == addToCart_revalidateCoupon(c1, productId)
           IN Save(op, key, c2,
                   Response(op, 200,
                            IF existingQuantity > 0
                            THEN "Cart item quantity updated"
                            ELSE "Item added to cart"),
                   fail)

\* the loop of getCart without the clamp of a quantity above the stock
RECURSIVE getCart_validateItems_NoClamp(_)
getCart_validateItems_NoClamp(items) ==
    IF items = <<>> THEN [validItems |-> <<>>, removedItems |-> <<>>]
    ELSE
      LET item == Head(items)
          product == Product_findById(item.productId)
          rest == getCart_validateItems_NoClamp(Tail(items))
          Removed(reason) == <<[title |-> item.title, reason |-> reason]>>
      IN IF product = Null \/ ~product.isActive
         THEN [validItems |-> rest.validItems,
               removedItems |-> Removed("Product no longer available")
                                  \o rest.removedItems]
         ELSE IF item.quantity > product.stock /\ product.stock = 0
         THEN [validItems |-> rest.validItems,
               removedItems |-> Removed("Out of stock") \o rest.removedItems]
         ELSE [validItems |-> <<item>> \o rest.validItems,
               removedItems |-> rest.removedItems]

\* the loop of getCart reporting a quantity above the stock without
\* reducing it
RECURSIVE getCart_validateItems_ReportOnly(_)
getCart_validateItems_ReportOnly(items) ==
    IF items = <<>> THEN [validItems |-> <<>>, removedItems |-> <<>>]
    ELSE
      LET item == Head(items)
          product == Product_findById(item.productId)
          rest == getCart_validateItems_ReportOnly(Tail(items))
          Removed(reason) == <<[title |-> item.title, reason |-> reason]>>
      IN IF product = Null \/ ~product.isActive
         THEN [validItems |-> rest.validItems,
               removedItems |-> Removed("Product no longer available")
                                  \o rest.removedItems]
         ELSE IF item.quantity > product.stock
         THEN IF product.stock > 0
              THEN [validItems |-> <<item>> \o rest.validItems,
                    removedItems |-> Removed("Quantity reduced (available stock)")
                                       \o rest.removedItems]
              ELSE [validItems |-> rest.validItems,
                    removedItems |-> Removed("Out of stock") \o rest.removedItems]
         ELSE [validItems |-> <<item>> \o rest.validItems,
               removedItems |-> rest.removedItems]

\* getCart, lines 161-194: the loop over cart.items
RECURSIVE getCart_validateItems(_)
getCart_validateItems(items) ==
    IF items = <<>> THEN [validItems |-> <<>>, removedItems |-> <<>>]
    ELSE
      LET item == Head(items)
          product == Product_findById(item.productId)
          rest == getCart_validateItems(Tail(items))
          Removed(reason) == <<[title |-> item.title, reason |-> reason]>>
      IN IF product = Null \/ ~product.isActive
         THEN [validItems |-> rest.validItems,
               removedItems |-> Removed("Product no longer available")
                                  \o rest.removedItems]
         ELSE IF item.quantity > product.stock
         THEN IF product.stock > 0
              THEN [validItems |-> <<[item EXCEPT !.quantity = product.stock]>>
                                     \o rest.validItems,
                    removedItems |-> Removed("Quantity reduced (available stock)")
                                       \o rest.removedItems]
              ELSE [validItems |-> rest.validItems,
                    removedItems |-> Removed("Out of stock") \o rest.removedItems]
         ELSE [validItems |-> <<item>> \o rest.validItems,
               removedItems |-> rest.removedItems]

\* getCart, lines 199-220: [cart, removedItems]
getCart_revalidateCoupon(cart) ==
    IF cart.coupon # Null /\ Len(cart.items) > 0
    THEN LET coupon == Coupon_findOne(cart.coupon.code)
         IN IF coupon = Null \/ ~Coupon_isValid(coupon, now)
            THEN [cart |-> Cart_removeCoupon(cart),
                  removedItems |-> <<[title |-> "Coupon",
                                      reason |-> "Coupon expired or invalid"]>>]
            ELSE LET discountCalculation ==
                         Coupon_calculateDiscount(coupon, cart.items, now)
                 IN IF DiscountAmountOf(discountCalculation) = 0
                    THEN [cart |-> Cart_removeCoupon(cart),
                          removedItems |->
                             <<[title |-> "Coupon",
                                reason |-> "No applicable products in cart"]>>]
                    ELSE [cart |-> Cart_applyCoupon(cart, coupon,
                                                    discountCalculation),
                          removedItems |-> <<>>]
    ELSE [cart |-> cart, removedItems |-> <<>>]

getCartResult(userId, sessionId) ==
    LET op == "getCart"
        fail == "Failed to fetch cart"
    IN
    IF CartKeyOf(userId, sessionId) = ""
    THEN Reply(ServerError(op, fail, "Either userId or sessionId is required"))
    ELSE
      LET key == CartKeyOf(userId, sessionId)
          cart == getOrCreateCart(userId, sessionId)
          validated == getCart_validateItems(cart.items)
          c1 == [cart EXCEPT !.items = validated.validItems]
          revalidated == getCart_revalidateCoupon(c1)
          c2 == Cart_calculateFinalTotal(revalidated.cart)
      IN Save(op, key, c2,
              [Response(op, 200, "") EXCEPT
                  !.removedItems = validated.removedItems
                                     \o revalidated.removedItems],
              fail)

HasItem(cart, itemId) == \E i \in DOMAIN cart.items : cart.items[i].id = itemId

ItemById(cart, itemId) ==
    cart.items[CHOOSE i \in DOMAIN cart.items : cart.items[i].id = itemId]

\* updateCartItem, lines 302-315
updateCartItem_revalidateCoupon(cart) ==
    IF cart.coupon # Null /\ Len(cart.items) > 0
    THEN LET coupon == Coupon_findOne(cart.coupon.code)
         IN IF coupon # Null /\ Coupon_isValid(coupon, now)
            THEN LET discountCalculation ==
                         Coupon_calculateDiscount(coupon, cart.items, now)
                 IN IF DiscountAmountOf(discountCalculation) > 0
                    THEN Cart_applyCoupon(cart, coupon, discountCalculation)
                    ELSE Cart_removeCoupon(cart)
            ELSE Cart_removeCoupon(cart)
    ELSE cart

updateCartItemResult(userId, sessionId, itemId, quantity) ==
    LET op == "updateCartItem"
        fail == "Failed to update cart item"
    IN
    IF ~isValidObjectId(itemId)
    THEN Reply(Response(op, 400, "Invalid item ID"))
    ELSE IF quantity < 0
    THEN Reply(Response(op, 400, "Quantity cannot be negative"))
    ELSE IF CartKeyOf(userId, sessionId) = ""
    THEN Reply(ServerError(op, fail, "Either userId or sessionId is required"))
    ELSE
      LET key == CartKeyOf(userId, sessionId)
          cart == getOrCreateCart(userId, sessionId)
      IN IF ~HasItem(cart, itemId)
         THEN Reply(Response(op, 404, "Cart item not found"))
         ELSE IF quantity = 0
         THEN Save(op, key,
                   updateCartItem_revalidateCoupon(Cart_removeItem(cart, itemId)),
                   Response(op, 200, "Item removed from cart"), fail)
         ELSE
           LET item == ItemById(cart, itemId)
               product == Product_findById(item.productId)
           IN IF product = Null
              THEN Reply(Response(op, 404, "Product not found"))
              ELSE
                LET stockValidation == validateStock(product, 0, quantity)
                IN IF stockValidation.threw
                   THEN Reply(ServerError(op, fail, "Product is not available"))
                   ELSE IF ~stockValidation.valid
                   THEN Reply([Response(op, 400, "Only units available")
                                 EXCEPT !.maxAllowed = stockValidation.maxAllowed])
                   ELSE Save(op, key,
                             updateCartItem_revalidateCoupon(
                                Cart_updateItemQuantity(cart, itemId,
                                    Min(quantity, product.stock))),
                             Response(op, 200, "Cart item updated"), fail)

removeCartItemResult(userId, sessionId, itemId) ==
    LET op == "removeCartItem"
        fail == "Failed to remove cart item"
    IN
    IF ~isValidObjectId(itemId)
    THEN Reply(Response(op, 400, "Invalid item ID"))
    ELSE IF CartKeyOf(userId, sessionId) = ""
    THEN Reply(ServerError(op, fail, "Either userId or sessionId is required"))
    ELSE
      LET key == CartKeyOf(userId, sessionId)
          cart == getOrCreateCart(userId, sessionId)
      IN IF ~HasItem(cart, itemId)
         THEN Reply(Response(op, 404, "Cart item not found"))
         ELSE Save(op, key, Cart_removeItem(cart, itemId),
                   Response(op, 200, "Item removed from cart"), fail)

clearCartResult(userId, sessionId) ==
    LET op == "clearCart"
        fail == "Failed to clear cart"
    IN
    IF CartKeyOf(userId, sessionId) = ""
    THEN Reply(ServerError(op, fail, "Either userId or sessionId is required"))
    ELSE Save(op, CartKeyOf(userId, sessionId),
              Cart_clearCart(getOrCreateCart(userId, sessionId)),
              Response(op, 200, "Cart cleared successfully"), fail)

\* mergeCart, lines 443-452: guest items that may be merged
RECURSIVE mergeCart_validGuestItems(_)
mergeCart_validGuestItems(items) ==
    IF items = <<>> THEN <<>>
    ELSE LET item == Head(items)
             product == Product_findById(item.productId)
             rest == mergeCart_validGuestItems(Tail(items))
         IN IF product # Null /\ product.isActive /\ product.stock > 0
            THEN <<[item EXCEPT !.quantity = Min(item.quantity, product.stock)]>>
                   \o rest
            ELSE rest

\* mergeCart, lines 460-466: cap quantities by stock (no recomputation)
mergeCart_capByStock(cart) ==
    [cart EXCEPT !.items =
        [i \in DOMAIN cart.items |->
            LET item == cart.items[i]
                product == Product_findById(item.productId)
            IN IF product # Null
               THEN [item EXCEPT !.quantity = Min(item.quantity, product.stock)]
               ELSE item]]

\* Cart.findOne({ sessionId })
Cart_findOneBySession(sessionId) ==
    IF sessionId \in SessionIds THEN carts[sessionId] ELSE Null

mergeCartResult(userId, guestSessionId) ==
    LET op == "mergeCart"
        fail == "Failed to merge carts"
    IN
    IF guestSessionId = ""
    THEN Reply(Response(op, 400, "Guest session ID is required"))
    ELSE
      LET guestCart == Cart_findOneBySession(guestSessionId)
      IN IF guestCart = Null \/ Len(guestCart.items) = 0
         THEN Reply(Response(op, 200, "No guest cart to merge"))
         ELSE
           LET userCart == getOrCreateCart(userId, "")
               validGuestItems == mergeCart_validGuestItems(guestCart.items)
               merged == Cart_mergeWith(userCart,
                            [guestCart EXCEPT !.items = validGuestItems])
               capped == mergeCart_capByStock(merged)
           IN IF SchemaValid(capped)
              THEN [carts |-> [carts EXCEPT ![userId] = capped,
                                            ![guestSessionId] = Null],
                    res |-> Response(op, 200, "Carts merged successfully")]
              ELSE Reply(ServerError(op, fail, "Cart validation failed"))

applyCouponResult(userId, sessionId, code) ==
    LET op == "applyCoupon"
        fail == "Failed to apply coupon"
    IN
    IF code = "" THEN Reply(Response(op, 400, "Coupon code is required"))
    ELSE IF CartKeyOf(userId, sessionId) = ""
    THEN Reply(ServerError(op, fail, "Either userId or sessionId is required"))
    ELSE
      LET key == CartKeyOf(userId, sessionId)
          cart == getOrCreateCart(userId, sessionId)
          coupon == Coupon_findOne(toUpperCase(code))
          cartProductIds == [i \in DOMAIN cart.items |-> cart.items[i].productId]
      IN IF Len(cart.items) = 0
         THEN Reply(Response(op, 400, "Cannot apply coupon to empty cart"))
         ELSE IF coupon = Null
         THEN Reply(Response(op, 404, "Invalid coupon code"))
         ELSE IF ~Coupon_isValid(coupon, now)
         THEN Reply(Response(op, 400, "Coupon is expired or inactive"))
         ELSE IF ~Coupon_isApplicableToProducts(coupon, cartProductIds)
         THEN Reply(Response(op, 400,
                "Coupon is not applicable to any products in your cart"))
         ELSE
           LET discountCalculation ==
                   Coupon_calculateDiscount(coupon, cart.items, now)
           IN IF DiscountAmountOf(discountCalculation) = 0
              THEN Reply(Response(op, 400,
                     "Coupon cannot be applied to current cart items"))
              ELSE Save(op, key,
                        Cart_applyCoupon(cart, coupon, discountCalculation),
                        Response(op, 200, "Coupon applied successfully"), fail)

\* removeCoupon clearing and saving the cart before it tests for a coupon
removeCouponResult_SaveFirst(userId, sessionId) ==
    LET op == "removeCoupon"
        fail == "Failed to remove coupon"
    IN
    IF CartKeyOf(userId, sessionId) = ""
    THEN Reply(ServerError(op, fail, "Either userId or sessionId is required"))
    ELSE
      LET key == CartKeyOf(userId, sessionId)
          cart == getOrCreateCart(userId, sessionId)
      IN IF cart.coupon = Null
         THEN [carts |-> [carts EXCEPT ![key] = Cart_removeCoupon(cart)],
               res |-> Response(op, 400, "No coupon applied to cart")]
         ELSE Save(op, key, Cart_removeCoupon(cart),
                   Response(op, 200, "Coupon removed successfully"), fail)

removeCouponResult(userId, sessionId) ==
    LET op == "removeCoupon"
        fail == "Failed to remove coupon"
    IN
    IF CartKeyOf(userId, sessionId) = ""
    THEN Reply(ServerError(op, fail, "Either userId or sessionId is required"))
    ELSE
      LET key == CartKeyOf(userId, sessionId)
          cart == getOrCreateCart(userId, sessionId)
      IN IF cart.coupon = Null
         THEN Reply(Response(op, 400, "No coupon applied to cart"))
         ELSE Save(op, key, Cart_removeCoupon(cart),
                   Response(op, 200, "Coupon removed successfully"), fail)

(***************************************************************************)
(* Requests.                                                               *)
(***************************************************************************)
\* req.user?.id and the x-session-id header; "" when absent
RequestUserIds == UserIds \cup {""}
RequestSessionIds == SessionIds \cup {""}
RequestProductIds == ProductIds \cup {UnknownProductId, MalformedId, ""}
RequestItemIds == ItemIds \cup {MalformedId}
RequestQuantities == 0 .. (MaxStock + 1)
RequestCodes == {"save", "nope", ""}

NoResponse == Response("", 0, "")

Handle(result) ==
    /\ res = NoResponse
    /\ carts' = result.carts
    /\ res' = result.res
    /\ UNCHANGED <<products, coupons, now, adminOps, calc,
                   collection, inflight, unitsAdded>>

\* res.json(...) has been sent and the request is over
endRequest ==
    /\ res # NoResponse
    /\ res' = NoResponse
    /\ UNCHANGED <<products, coupons, carts, now, adminOps, calc,
                   collection, inflight, unitsAdded>>

addToCart(userId, sessionId, productId, quantity) ==
    Handle(addToCartResult(userId, sessionId, productId, quantity))

getCart(userId, sessionId) == Handle(getCartResult(userId, sessionId))

updateCartItem(userId, sessionId, itemId, quantity) ==
    Handle(updateCartItemResult(userId, sessionId, itemId, quantity))

removeCartItem(userId, sessionId, itemId) ==
    Handle(removeCartItemResult(userId, sessionId, itemId))

clearCart(userId, sessionId) == Handle(clearCartResult(userId, sessionId))

mergeCart(userId, guestSessionId) ==
    Handle(mergeCartResult(userId, guestSessionId))

applyCoupon(userId, sessionId, code) ==
    Handle(applyCouponResult(userId, sessionId, code))

removeCoupon(userId, sessionId) == Handle(removeCouponResult(userId, sessionId))

(***************************************************************************)
(* Admin writes to the catalog and the coupon directory, and the clock.    *)
(***************************************************************************)
\* updateProduct (part_007): findByIdAndUpdate(id, req.body)
updateProduct(productId, field, value) ==
    /\ res = NoResponse /\ adminOps < MaxAdminOps
    /\ adminOps' = adminOps + 1
    /\ products' =
         CASE field = "stock" -> [products EXCEPT ![productId].stock = value]
           [] field = "price" -> [products EXCEPT ![productId].price = value]
           [] field = "isActive" -> [products EXCEPT ![productId].isActive = value]
    /\ products' # products
    /\ res' = Response("updateProduct", 200, "Product updated successfully")
    /\ UNCHANGED <<coupons, carts, now, calc,
                   collection, inflight, unitsAdded>>

\* deleteProduct (part_007): soft delete
deleteProduct(productId) ==
    /\ res = NoResponse /\ adminOps < MaxAdminOps
    /\ adminOps' = adminOps + 1
    /\ products[productId].isActive
    /\ products' = [products EXCEPT ![productId].isActive = FALSE]
    /\ res' = Response("deleteProduct", 200, "Product deleted successfully")
    /\ UNCHANGED <<coupons, carts, now, calc,
                   collection, inflight, unitsAdded>>

\* updateCoupon (coupon.controller.js), one field per request
updateCoupon(code, field, value) ==
    /\ res = NoResponse /\ adminOps < MaxAdminOps
    /\ adminOps' = adminOps + 1
    /\ coupons[code] # Null
    \* Product.find({_id: {$in: applicableProducts}, isActive: true})
    /\ field = "applicableProducts" => \A p \in value : products[p].isActive
    /\ coupons' =
         CASE field = "isActive" -> [coupons EXCEPT ![code].isActive = value]
           [] field = "discountValue" ->
                [coupons EXCEPT ![code].discountValue = value]
           [] field = "applicableProducts" ->
                [coupons EXCEPT ![code].applicableProducts = value]
    /\ coupons' # coupons
    /\ res' = Response("updateCoupon", 200, "Coupon updated successfully")
    /\ UNCHANGED <<products, carts, now, calc,
                   collection, inflight, unitsAdded>>

\* deleteCoupon also stripping the coupon from the carts that carry it
deleteCoupon_Cascade(code) ==
    /\ res = NoResponse /\ adminOps < MaxAdminOps
    /\ adminOps' = adminOps + 1
    /\ coupons[code] # Null
    /\ coupons' = [coupons EXCEPT ![code] = Null]
    /\ carts' = [k \in CartKeys |->
                   IF carts[k] # Null /\ carts[k].coupon # Null
                      /\ carts[k].coupon.code = code
                   THEN Cart_removeCoupon(carts[k])
                   ELSE carts[k]]
    /\ res' = Response("deleteCoupon", 200, "Coupon deleted successfully")
    /\ UNCHANGED <<products, now, calc,
                   collection, inflight, unitsAdded>>

deleteCoupon(code) ==
    /\ res = NoResponse /\ adminOps < MaxAdminOps
    /\ adminOps' = adminOps + 1
    /\ coupons[code] # Null
    /\ coupons' = [coupons EXCEPT ![code] = Null]
    /\ res' = Response("deleteCoupon", 200, "Coupon deleted successfully")
    /\ UNCHANGED <<products, carts, now, calc,
                   collection, inflight, unitsAdded>>

\* createCoupon (coupon.controller.js): the required fields are present, the
\* products are active and the code is free; an empty applicableProducts
\* array passes `!applicableProducts` and the product count check
createCoupon(code, discountValue, applicableProducts, startDate, endDate) ==
    /\ res = NoResponse /\ adminOps < MaxAdminOps
    /\ adminOps' = adminOps + 1
    /\ discountValue >= 1 /\ discountValue <= 100
    /\ startDate < endDate
    /\ \A p \in applicableProducts : products[p].isActive
    /\ coupons[toUpperCase(code)] = Null
    /\ coupons' = [coupons EXCEPT ![toUpperCase(code)] =
                      [code |-> toUpperCase(code),
                       discountType |-> "percentage",
                       discountValue |-> discountValue,
                       applicableProducts |-> applicableProducts,
                       startDate |-> startDate, endDate |-> endDate,
                       isActive |-> TRUE, usageCount |-> 0,
                       maxUsage |-> NullNum]]
    /\ res' = Response("createCoupon", 201, "Coupon created successfully")
    /\ UNCHANGED <<products, carts, now, calc,
                   collection, inflight, unitsAdded>>

Tick ==
    /\ res = NoResponse
    /\ now < MaxTime
    /\ now' = now + 1
    /\ UNCHANGED <<products, coupons, carts, res, adminOps, calc,
                   collection, inflight, unitsAdded>>

(***************************************************************************)
(* Specification.                                                          *)
(***************************************************************************)
\* the clients of the overlapping requests
Clients == {"c1", "c2"}

\* a bearer token: the id it claims, the secret it is signed with, expiry
NoToken == [id |-> "", secret |-> "", expired |-> FALSE]

\* req.headers.authorization when the header is absent
NoAuthorization == [scheme |-> "", token |-> NoToken]

\* req.user before any middleware has set it
NoUser == [type |-> "undefined"]

Idle ==
    [pc |-> "idle", op |-> "", n |-> 0, status |-> 0, key |-> "", id |-> 0,
     cart |-> NewCart, guestId |-> 0, guestCart |-> NewCart, units |-> 0,
     productId |-> "", authorization |-> NoAuthorization, sessionId |-> "",
     user |-> NoUser]

\* no request overlaps another: every handler runs from its load to its save
\* and its answer in one step, on the collection `carts`
NoOverlap ==
    /\ collection = <<>>
    /\ inflight = [c \in Clients |-> Idle]
    /\ unitsAdded = [p \in ProductIds |-> 0]

NoCalc == [fn |-> ""]

InitialCoupon ==
    [code |-> "SAVE", discountType |-> "percentage", discountValue |-> 10,
     applicableProducts |-> {"p1"}, startDate |-> 0, endDate |-> 1,
     isActive |-> TRUE, usageCount |-> 0, maxUsage |-> NullNum]

Init ==
    /\ products = [p \in ProductIds |->
                     [id |-> p, title |-> p, isActive |-> TRUE,
                      stock |-> MaxStock, price |-> 4]]
    /\ coupons = [c \in CouponCodes |-> InitialCoupon]
    /\ carts = [k \in CartKeys |-> Null]
    /\ now = 1
    /\ res = NoResponse
    /\ adminOps = 0
    /\ NoOverlap
    /\ calc = NoCalc

\* a cart request of identity (u, s)
CartRequest(u, s) ==
    \/ \E p \in RequestProductIds, q \in RequestQuantities : addToCart(u, s, p, q)
    \/ getCart(u, s)
    \/ \E i \in RequestItemIds, q \in RequestQuantities :
          updateCartItem(u, s, i, q)
    \/ \E i \in RequestItemIds : removeCartItem(u, s, i)
    \/ clearCart(u, s)
    \/ \E c \in RequestCodes : applyCoupon(u, s, c)
    \/ removeCoupon(u, s)

\* The cart store under the requests of a registered user, a guest session
\* that fills its cart, the merge at login, and catalog writes (stock, soft
\* delete) to the product the coupon applies to.
CatalogWriteProducts == {"p1"}

Next ==
    \/ \E u \in UserIds : CartRequest(u, "")
    \/ \E s \in SessionIds, p \in RequestProductIds, q \in RequestQuantities :
          addToCart("", s, p, q)
    \/ \E u \in UserIds, g \in RequestSessionIds : mergeCart(u, g)
    \/ \E p \in CatalogWriteProducts :
          \/ \E v \in 0 .. MaxStock :
                adminOps < MaxCatalogWrites /\ updateProduct(p, "stock", v)
          \/ adminOps < MaxCatalogWrites /\ deleteProduct(p)
    \/ endRequest

Spec == Init /\ [][Next]_vars

\* The cart of the registered user under every admin write to the catalog
\* and the coupon directory, and the passing of time.
NextCoupons ==
    \/ \E u \in RequestUserIds : CartRequest(u, "")
    \/ \E p \in ProductIds :
          \/ \E v \in 0 .. MaxStock : updateProduct(p, "stock", v)
          \/ \E v \in Prices : updateProduct(p, "price", v)
          \/ updateProduct(p, "isActive", TRUE)
          \/ deleteProduct(p)
    \/ \E c \in CouponCodes :
          \/ \E v \in BOOLEAN : updateCoupon(c, "isActive", v)
          \/ \E v \in DiscountValues : updateCoupon(c, "discountValue", v)
          \/ \E v \in (SUBSET ProductIds) \ {{}} :
                updateCoupon(c, "applicableProducts", v)
          \/ deleteCoupon(c)
    \/ Tick
    \/ endRequest

SpecCoupons == Init /\ [][NextCoupons]_vars

\* The carts of the registered user and of a guest session, the merge at
\* login, and admin writes to the price of a product.
NextPrices ==
    \/ \E u \in UserIds : CartRequest(u, "")
    \/ \E s \in SessionIds, p \in RequestProductIds, q \in RequestQuantities :
          addToCart("", s, p, q)
    \/ \E u \in UserIds, g \in RequestSessionIds : mergeCart(u, g)
    \/ \E p \in CatalogWriteProducts, v \in Prices :
          adminOps < MaxCatalogWrites /\ updateProduct(p, "price", v)
    \/ endRequest

SpecPrices == Init /\ [][NextPrices]_vars

\* The cart of the registered user under admin writes to the price and the
\* availability of the product the first coupon applies to and to the coupon
\* directory (created, updated and deleted coupons), and the passing of time.
NextAdmin ==
    \/ \E u \in RequestUserIds : CartRequest(u, "")
    \/ \E p \in CatalogWriteProducts :
          \/ \E v \in Prices :
                adminOps < MaxCatalogWrites /\ updateProduct(p, "price", v)
          \/ adminOps < MaxCatalogWrites /\ deleteProduct(p)
    \/ \E c \in CouponCodes :
          \/ \E v \in BOOLEAN : updateCoupon(c, "isActive", v)
          \/ \E v \in (SUBSET ProductIds) \ {{}} :
                updateCoupon(c, "applicableProducts", v)
          \/ deleteCoupon(c)
    \/ \E v \in DiscountValues, ap \in SUBSET ProductIds :
          createCoupon("save", v, ap, 0, 1)
    \/ Tick
    \/ endRequest

SpecAdmin == Init /\ [][NextAdmin]_vars

(***************************************************************************)
(* The model methods called on their own: the arguments are drawn in the   *)
(* initial state and the call records its result.                          *)
(***************************************************************************)
CalcDiscountValues == {1, 10, 50, 100}
CalcPrices == {0, 4, 5}
CalcItem(p, q, price) ==
    [id |-> NewItemId(p), productId |-> p, title |-> p,
     quantity |-> q, priceAtAdd |-> price]
CalcItems == {CalcItem(p, q, price) :
                p \in ProductIds, q \in 1 .. MaxStock, price \in CalcPrices}
CalcItemLists ==
    {<<>>} \cup {<<a>> : a \in CalcItems}
           \cup {<<a, b>> : a \in {i \in CalcItems : i.productId = "p1"},
                            b \in {i \in CalcItems : i.productId = "p2"}}
CalcCoupons ==
    {[InitialCoupon EXCEPT !.discountValue = dv, !.applicableProducts = ap,
                           !.isActive = act] :
        dv \in CalcDiscountValues, ap \in (SUBSET ProductIds) \ {{}},
        act \in BOOLEAN}

InitCalc ==
    /\ products = [p \in ProductIds |->
                     [id |-> p, title |-> p, isActive |-> TRUE,
                      stock |-> MaxStock, price |-> 4]]
    /\ coupons = [c \in CouponCodes |-> InitialCoupon]
    /\ carts = [k \in CartKeys |-> Null]
    /\ now \in 1 .. MaxTime
    /\ res = NoResponse
    /\ adminOps = 0
    /\ NoOverlap
    /\ calc \in {[fn |-> "", coupon |-> c, cartItems |-> items] :
                    c \in CalcCoupons, items \in CalcItemLists}

\* coupon.calculateDiscount(cartItems)
calculateDiscount ==
    /\ calc.fn = ""
    /\ calc' = [fn |-> "calculateDiscount", coupon |-> calc.coupon,
                cartItems |-> calc.cartItems,
                result |-> Coupon_calculateDiscount(calc.coupon,
                                                    calc.cartItems, now)]
    /\ UNCHANGED <<products, coupons, carts, now, res, adminOps,
                   collection, inflight, unitsAdded>>

NextCalc == calculateDiscount

SpecCalc == InitCalc /\ [][NextCalc]_vars

\* coupon.isValid() called on its own on a coupon document in any state the
\* schema admits (maxUsage is a Number without a minimum, null by default)
ValidCoupons ==
    {[InitialCoupon EXCEPT !.isActive = act, !.startDate = sd, !.endDate = ed,
                           !.usageCount = uc, !.maxUsage = mu] :
        act \in BOOLEAN, sd \in 0 .. MaxTime, ed \in 0 .. MaxTime,
        uc \in 0 .. MaxUsage, mu \in {NullNum} \cup (0 .. MaxUsage)}

InitValid ==
    /\ products = [p \in ProductIds |->
                     [id |-> p, title |-> p, isActive |-> TRUE,
                      stock |-> MaxStock, price |-> 4]]
    /\ coupons = [c \in CouponCodes |-> InitialCoupon]
    /\ carts = [k \in CartKeys |-> Null]
    /\ now \in 0 .. MaxTime
    /\ res = NoResponse
    /\ adminOps = 0
    /\ NoOverlap
    /\ calc \in {[fn |-> "", coupon |-> c] : c \in ValidCoupons}

\* coupon.isValid(): the method reads the document and assigns nothing
isValid ==
    /\ calc.fn = ""
    /\ calc' = [fn |-> "isValid", coupon |-> calc.coupon,
                after |-> calc.coupon,
                result |-> Coupon_isValid(calc.coupon, now)]
    /\ UNCHANGED <<products, coupons, carts, now, res, adminOps,
                   collection, inflight, unitsAdded>>

NextValid == isValid

SpecValid == InitValid /\ [][NextValid]_vars

\* cart.mergeWith(otherCart) called on its own on two cart documents, each
\* with at most one item per product
MergePrices == {4, 5}
MergeItemLists ==
    LET ItemsOf(p) == {CalcItem(p, q, price) :
                         q \in 1 .. MaxStock, price \in MergePrices}
    IN {<<>>} \cup {<<a>> : a \in ItemsOf("p1") \cup ItemsOf("p2")}
              \cup {<<a, b>> : a \in ItemsOf("p1"), b \in ItemsOf("p2")}
              \cup {<<b, a>> : a \in ItemsOf("p1"), b \in ItemsOf("p2")}
MergeCartOf(items, couponData) ==
    IF couponData = Null
    THEN Cart_calculateFinalTotal([NewCart EXCEPT !.items = items])
    ELSE Cart_applyCoupon([NewCart EXCEPT !.items = items], couponData,
                          [type |-> "object", discountAmount |-> 1])

InitMerge ==
    /\ products = [p \in ProductIds |->
                     [id |-> p, title |-> p, isActive |-> TRUE,
                      stock |-> MaxStock, price |-> 4]]
    /\ coupons = [c \in CouponCodes |-> InitialCoupon]
    /\ carts = [k \in CartKeys |-> Null]
    /\ now = 1
    /\ res = NoResponse
    /\ adminOps = 0
    /\ NoOverlap
    /\ calc \in {[fn |-> "", cart |-> MergeCartOf(a, c),
                   otherCart |-> MergeCartOf(b, Null)] :
                    a \in MergeItemLists, b \in MergeItemLists,
                    c \in {Null, InitialCoupon}}

\* cart.mergeWith(otherCart)
mergeWith ==
    /\ calc.fn = ""
    /\ calc' = [fn |-> "mergeWith", cart |-> calc.cart,
                otherCart |-> calc.otherCart,
                result |-> Cart_mergeWith(calc.cart, calc.otherCart)]
    /\ UNCHANGED <<products, coupons, carts, now, res, adminOps,
                   collection, inflight, unitsAdded>>

NextMerge == mergeWith

SpecMerge == InitMerge /\ [][NextMerge]_vars

(***************************************************************************)
(* Overlapping requests (part_005).  A handler is a chain of awaits; two   *)
(* clients run addToCart and mergeCart with each read and each write of    *)
(* the Cart collection as a step of its own.  The catalog and the coupon   *)
(* directory do not change here, so a read of them is taken together with  *)
(* the cart read next to it; the requests are well-formed (the checks      *)
(* made before the first read pass).                                       *)
(***************************************************************************)
\* Cart.findOne({ userId }) / Cart.findOne({ sessionId }): the first
\* matching document in insertion order, 0 for null
FindOne(key) ==
    LET ids == {i \in DOMAIN collection :
                  collection[i].key = key /\ ~collection[i].deleted}
    IN IF ids = {} THEN 0 ELSE CHOOSE i \in ids : \A j \in ids : i <= j

\* cart.save(): a document made by `new Cart(...)` (id 0) is inserted as a
\* new document, no index of the schema being unique; a loaded document is
\* written back by _id as the handler computed it, and writes nothing when
\* the document has been deleted meanwhile
SaveDocument(id, key, cart) ==
    IF id = 0
    THEN Append(collection, [key |-> key, cart |-> cart, deleted |-> FALSE])
    ELSE IF collection[id].deleted THEN collection
    ELSE [collection EXCEPT ![id].cart = cart]

\* the handler has answered
Answered(r, status) ==
    [Idle EXCEPT !.n = r.n, !.op = r.op, !.key = r.key, !.status = status]

\* addToCart up to its `await cart.save()`: Product.findById,
\* getOrCreateCart, validateStock, cart.addItem, the coupon revalidation
conc_addToCart_load(c, userId, sessionId, productId, quantity) ==
    /\ inflight[c].pc = "idle" /\ inflight[c].n < MaxConcRequests
    /\ LET key == CartKeyOf(userId, sessionId)
           product == Product_findById(productId)
           id == FindOne(key)
           cart == IF id = 0 THEN NewCart ELSE collection[id].cart
           existingQuantity == ExistingQuantity(cart, productId)
           stockValidation == validateStock(product, quantity, existingQuantity)
           started == [Idle EXCEPT !.n = inflight[c].n + 1,
                                   !.op = "addToCart", !.key = key]
       IN inflight' = [inflight EXCEPT ![c] =
            IF stockValidation.threw THEN Answered(started, 500)
            ELSE IF ~stockValidation.valid THEN Answered(started, 400)
            ELSE [started EXCEPT
                    !.pc = "loaded", !.id = id,
                    !.cart = addToCart_revalidateCoupon(
                                Cart_addItem(cart, product, quantity,
                                             product.price,
                                             NewItemId(productId)),
                                productId),
                    !.units = quantity, !.productId = productId]]
    /\ UNCHANGED <<products, coupons, carts, now, res, adminOps, calc,
                   collection, unitsAdded>>

\* addToCart from `await cart.save()` to its answer
conc_addToCart_save(c) ==
    /\ inflight[c].pc = "loaded"
    /\ LET r == inflight[c]
       IN IF ~SchemaValid(r.cart)
          THEN /\ inflight' = [inflight EXCEPT ![c] = Answered(r, 500)]
               /\ UNCHANGED <<collection, unitsAdded>>
          ELSE IF r.id # 0 /\ collection[r.id].deleted
          THEN \* the save of a deleted document: it throws or it does not
               /\ \E status \in {200, 500} :
                     inflight' = [inflight EXCEPT ![c] = Answered(r, status)]
               /\ UNCHANGED <<collection, unitsAdded>>
          ELSE /\ collection' = SaveDocument(r.id, r.key, r.cart)
               /\ unitsAdded' = [unitsAdded EXCEPT ![r.productId] = @ + r.units]
               /\ inflight' = [inflight EXCEPT ![c] = Answered(r, 200)]
    /\ UNCHANGED <<products, coupons, carts, now, res, adminOps, calc>>

\* mergeCart up to `Cart.findOne({ sessionId: guestSessionId })`
conc_mergeCart_loadGuest(c, userId, guestSessionId) ==
    /\ inflight[c].pc = "idle" /\ inflight[c].n < MaxConcRequests
    /\ LET guestId == FindOne(guestSessionId)
           started == [Idle EXCEPT !.n = inflight[c].n + 1,
                                   !.op = "mergeCart", !.key = userId]
       IN inflight' = [inflight EXCEPT ![c] =
            IF guestId = 0 \/ Len(collection[guestId].cart.items) = 0
            THEN Answered(started, 200)
            ELSE [started EXCEPT !.pc = "guestLoaded", !.guestId = guestId,
                                 !.guestCart = collection[guestId].cart]]
    /\ UNCHANGED <<products, coupons, carts, now, res, adminOps, calc,
                   collection, unitsAdded>>

\* mergeCart from getOrCreateCart(userId) up to `await userCart.save()`
conc_mergeCart_loadUser(c) ==
    /\ inflight[c].pc = "guestLoaded"
    /\ LET r == inflight[c]
           id == FindOne(r.key)
           userCart == IF id = 0 THEN NewCart ELSE collection[id].cart
           validGuestItems == mergeCart_validGuestItems(r.guestCart.items)
           merged == Cart_mergeWith(userCart,
                        [r.guestCart EXCEPT !.items = validGuestItems])
       IN inflight' = [inflight EXCEPT ![c] =
            [r EXCEPT !.pc = "merged", !.id = id,
                      !.cart = mergeCart_capByStock(merged)]]
    /\ UNCHANGED <<products, coupons, carts, now, res, adminOps, calc,
                   collection, unitsAdded>>

\* mergeCart: `await userCart.save()`
conc_mergeCart_save(c) ==
    /\ inflight[c].pc = "merged"
    /\ LET r == inflight[c]
       IN IF SchemaValid(r.cart)
          THEN /\ collection' = SaveDocument(r.id, r.key, r.cart)
               /\ inflight' = [inflight EXCEPT ![c] = [r EXCEPT !.pc = "saved"]]
          ELSE /\ collection' = collection
               /\ inflight' = [inflight EXCEPT ![c] = Answered(r, 500)]
    /\ UNCHANGED <<products, coupons, carts, now, res, adminOps, calc,
                   unitsAdded>>

\* mergeCart: `await Cart.findByIdAndDelete(guestCart._id)` and the answer
conc_mergeCart_delete(c) ==
    /\ inflight[c].pc = "saved"
    /\ collection' = [collection EXCEPT ![inflight[c].guestId].deleted = TRUE]
    /\ inflight' = [inflight EXCEPT ![c] = Answered(inflight[c], 200)]
    /\ UNCHANGED <<products, coupons, carts, now, res, adminOps, calc,
                   unitsAdded>>

ConcQuantities == {1}

NextConc ==
    \E c \in Clients :
        \/ \E u \in UserIds, p \in ProductIds, q \in ConcQuantities :
              conc_addToCart_load(c, u, "", p, q)
        \/ \E s \in SessionIds, p \in ProductIds, q \in ConcQuantities :
              conc_addToCart_load(c, "", s, p, q)
        \/ conc_addToCart_save(c)
        \/ \E u \in UserIds, g \in SessionIds : conc_mergeCart_loadGuest(c, u, g)
        \/ conc_mergeCart_loadUser(c)
        \/ conc_mergeCart_save(c)
        \/ conc_mergeCart_delete(c)

SpecConc == Init /\ [][NextConc]_vars

(***************************************************************************)
(* The cart routes behind optionalAuth: the middleware resolves req.user   *)
(* from the Authorization header, then the handler resolves the cart from  *)
(* req.user?.id and the x-session-id header.                               *)
(***************************************************************************)
\* generateAccessToken signs { id, role } with JWT_SECRET;
\* generateRefreshToken signs with JWT_REFRESH_SECRET
generateAccessToken(userId, expired) ==
    [id |-> userId, secret |-> "JWT_SECRET", expired |-> expired]

generateRefreshToken(userId) ==
    [id |-> userId, secret |-> "JWT_REFRESH_SECRET", expired |-> FALSE]

\* a token that names a user and is signed with a key of the sender's own
ForgedToken(userId) == [id |-> userId, secret |-> "forged", expired |-> FALSE]

\* jwt.verify(token, process.env.JWT_SECRET): the payload, or a throw on a
\* wrong signature or an expired token
jwt_verify(token) ==
    IF token.secret = "JWT_SECRET" /\ ~token.expired
    THEN [threw |-> FALSE, decoded |-> [id |-> token.id]]
    ELSE [threw |-> TRUE, decoded |-> NoUser]

\* optionalAuth reading the payload without verifying it (jwt.decode)
optionalAuth_Decode(authorization) ==
    LET token == authorization.token
    IN IF token # NoToken THEN [id |-> token.id] ELSE NoUser

\* req.user after optionalAuth: untouched without a token, the decoded
\* payload of a token that verifies, null for one that does not
optionalAuth(authorization) ==
    LET token == authorization.token
    IN IF token # NoToken
       THEN LET verified == jwt_verify(token)
            IN IF verified.threw THEN Null ELSE verified.decoded
       ELSE NoUser

\* req.user?.id
UserIdOf(user) == IF "id" \in DOMAIN user THEN user.id ELSE ""

AuthorizationHeaders ==
    {NoAuthorization}
      \cup {[scheme |-> "Bearer", token |-> t] :
               t \in UNION {{generateAccessToken(u, FALSE),
                              generateAccessToken(u, TRUE),
                              generateRefreshToken(u),
                              ForgedToken(u)} : u \in UserIds}}

\* the route's middleware has run and calls next()
auth_optionalAuth(c, authorization, xSessionId) ==
    /\ inflight[c].pc \in {"idle", "served"}
    /\ inflight' = [inflight EXCEPT ![c] =
          [Idle EXCEPT !.pc = "authenticated",
                       !.authorization = authorization,
                       !.sessionId = xSessionId,
                       !.user = optionalAuth(authorization)]]
    /\ UNCHANGED <<products, coupons, carts, now, res, adminOps, calc,
                   collection, unitsAdded>>

\* the handler of the route runs on the request the middleware passed on
Serve(c, result) ==
    /\ inflight[c].pc = "authenticated"
    /\ res = NoResponse
    /\ carts' = result.carts
    /\ res' = result.res
    /\ inflight' = [inflight EXCEPT ![c].pc = "served"]
    /\ UNCHANGED <<products, coupons, now, adminOps, calc,
                   collection, unitsAdded>>

route_addToCart(c, productId, quantity) ==
    Serve(c, addToCartResult(UserIdOf(inflight[c].user),
                             inflight[c].sessionId, productId, quantity))

route_getCart(c) ==
    Serve(c, getCartResult(UserIdOf(inflight[c].user), inflight[c].sessionId))

route_updateCartItem(c, itemId, quantity) ==
    Serve(c, updateCartItemResult(UserIdOf(inflight[c].user),
                                  inflight[c].sessionId, itemId, quantity))

route_removeCartItem(c, itemId) ==
    Serve(c, removeCartItemResult(UserIdOf(inflight[c].user),
                                  inflight[c].sessionId, itemId))

route_clearCart(c) ==
    Serve(c, clearCartResult(UserIdOf(inflight[c].user),
                             inflight[c].sessionId))

route_applyCoupon(c, code) ==
    Serve(c, applyCouponResult(UserIdOf(inflight[c].user),
                               inflight[c].sessionId, code))

route_removeCoupon(c) ==
    Serve(c, removeCouponResult(UserIdOf(inflight[c].user),
                                inflight[c].sessionId))

AuthClients == {"c1"}
AuthProductIds == {"p1"}
AuthQuantities == {1, 2}
AuthCodes == {"save"}

NextAuth ==
    \/ \E c \in AuthClients :
          \/ \E a \in AuthorizationHeaders, s \in RequestSessionIds :
                auth_optionalAuth(c, a, s)
          \/ \E p \in AuthProductIds, q \in AuthQuantities :
                route_addToCart(c, p, q)
          \/ route_getCart(c)
          \/ \E p \in AuthProductIds, q \in AuthQuantities :
                route_updateCartItem(c, NewItemId(p), q)
          \/ \E p \in AuthProductIds : route_removeCartItem(c, NewItemId(p))
          \/ route_clearCart(c)
          \/ \E code \in AuthCodes : route_applyCoupon(c, code)
          \/ route_removeCoupon(c)
    \/ endRequest

SpecAuth == Init /\ [][NextAuth]_vars

(***************************************************************************)
(* Properties.                                                             *)
(***************************************************************************)
StoredCarts == {carts[k] : k \in {kk \in CartKeys : carts[kk] # Null}}

\* C1: in every stored cart, subtotal is the sum of priceAtAdd * quantity
\* over the stored items.
C1_SubtotalIsSum ==
    \A cart \in StoredCarts :
        cart.subtotal = SeqSum(ItemTotals(cart.items))

\* C2: in every stored cart, totalDiscount is the applied coupon's
\* discountAmount (0 without a coupon), finalTotal is
\* max(0, subtotal - totalDiscount), and finalTotal is a number >= 0.
C2_TotalsFollowCoupon ==
    \A cart \in StoredCarts :
        /\ cart.totalDiscount =
              (IF cart.coupon = Null THEN 0 ELSE cart.coupon.discountAmount)
        /\ IsNumber(cart.subtotal) /\ IsNumber(cart.totalDiscount)
        /\ cart.finalTotal = Max(0, cart.subtotal - cart.totalDiscount)
        /\ cart.finalTotal >= 0

\* C2 witness: a stored cart whose discount exceeds its subtotal, so that
\* finalTotal is held at 0.
C2_Witness ==
    \E cart \in StoredCarts :
        /\ cart.coupon # Null
        /\ cart.totalDiscount > cart.subtotal
        /\ cart.finalTotal = 0

\* C3: a stored cart with a coupon has an item whose product is in the
\* coupon snapshot's applicableProducts; no stored empty cart has a coupon.
C3_CouponHasApplicableItem ==
    \A cart \in StoredCarts :
        cart.coupon # Null =>
            \E i \in DOMAIN cart.items :
                cart.items[i].productId \in cart.coupon.applicableProducts

\* C4: every stored item has quantity >= 1.
C4_QuantityAtLeastOne ==
    \A cart \in StoredCarts :
        \A i \in DOMAIN cart.items : cart.items[i].quantity >= 1

\* C4 witness: a merge has answered with success after capping a quantity by
\* stock (the stored subtotal still counts the uncapped quantity).
C4_Witness ==
    /\ res.op = "mergeCart" /\ res.message = "Carts merged successfully"
    /\ \E cart \in StoredCarts :
          /\ cart.subtotal # SeqSum(ItemTotals(cart.items))
          /\ \A i \in DOMAIN cart.items : cart.items[i].quantity >= 1

\* C5: addToCart for an existing active product is rejected as
\* InsufficientStock exactly when (quantity of the product in the cart +
\* requested quantity) > stock, the rejection reporting
\* maxAllowed = max(0, stock - quantity in the cart); otherwise the add
\* succeeds and the cart holds the added quantity.
C5_AddToCartStockRule ==
    [][\A u \in RequestUserIds, s \in RequestSessionIds,
          p \in ProductIds, q \in RequestQuantities \ {0} :
          (/\ res'.op = "addToCart"
           /\ CartKeyOf(u, s) # ""
           /\ products[p].isActive
           /\ addToCart(u, s, p, q)) =>
             LET existing == ExistingQuantity(getOrCreateCart(u, s), p)
                 stock == products[p].stock
             IN IF existing + q > stock
                THEN /\ res'.status = 400
                     /\ res'.maxAllowed = Max(0, stock - existing)
                     /\ carts' = carts
                ELSE /\ res'.status = 200
                     /\ ExistingQuantity(carts'[CartKeyOf(u, s)], p)
                           = existing + q
      ]_vars

\* C6: the maxAllowed of an InsufficientStock rejection is the largest
\* quantity the same request is accepted with: for addToCart, adding
\* maxAllowed (when >= 1) fits the stock and adding one more does not; for
\* updateItem, maxAllowed is the live stock of the item's product.
C6_MaxAllowedIsRetryable ==
    [][/\ \A u \in RequestUserIds, s \in RequestSessionIds,
            p \in ProductIds, q \in RequestQuantities :
            (/\ res'.op = "addToCart"
             /\ res'.status = 400 /\ res'.maxAllowed # Undefined
             /\ addToCart(u, s, p, q)) =>
               LET existing == ExistingQuantity(getOrCreateCart(u, s), p)
                   stock == products[p].stock
                   m == res'.maxAllowed
               IN /\ m >= 1 => existing + m <= stock
                  /\ existing + m + 1 > stock
       /\ \A u \in RequestUserIds, s \in RequestSessionIds,
            i \in ItemIds, q \in RequestQuantities :
            (/\ res'.op = "updateCartItem"
             /\ res'.status = 400 /\ res'.maxAllowed # Undefined
             /\ updateCartItem(u, s, i, q)) =>
               LET item == ItemById(getOrCreateCart(u, s), i)
               IN res'.maxAllowed = products[item.productId].stock
      ]_vars

\* C7: after a successful getCart every stored item refers to an existing,
\* active product and has 1 <= quantity <= live stock; every item dropped
\* (product missing or inactive, or stock 0) or clamped (quantity > stock > 0)
\* is reported in removedItems exactly once; an item within stock is stored
\* unchanged and is not reported.
C7_GetCartPrunes ==
    [][\A u \in RequestUserIds, s \in RequestSessionIds :
          (res'.op = "getCart" /\ res'.status = 200 /\ getCart(u, s)) =>
             LET old == getOrCreateCart(u, s).items
                 new == carts'[CartKeyOf(u, s)].items
                 Reports(item) ==
                     Cardinality({j \in DOMAIN res'.removedItems :
                                    res'.removedItems[j].title = item.title})
                 Gone(item) ==
                     \/ Product_findById(item.productId) = Null
                     \/ ~products[item.productId].isActive
                     \/ products[item.productId].stock = 0
             IN /\ \A j \in DOMAIN new :
                      /\ Product_findById(new[j].productId) # Null
                      /\ products[new[j].productId].isActive
                      /\ 1 <= new[j].quantity
                      /\ new[j].quantity <= products[new[j].productId].stock
                /\ Len(new) <= Len(old)
                /\ \A i \in DOMAIN old :
                      LET item == old[i]
                      IN IF Gone(item)
                         THEN /\ \A j \in DOMAIN new : new[j].id # item.id
                              /\ Reports(item) = 1
                         ELSE IF item.quantity > products[item.productId].stock
                         THEN /\ \E j \in DOMAIN new :
                                    new[j] = [item EXCEPT !.quantity =
                                                products[item.productId].stock]
                              /\ Reports(item) = 1
                         ELSE /\ \E j \in DOMAIN new : new[j] = item
                              /\ Reports(item) = 0
      ]_vars

\* C7 witness: a read has clamped one item of a two-item cart to the live
\* stock and reported it, the other item being left as it was.
C7_Witness ==
    /\ res.op = "getCart" /\ res.status = 200
    /\ Len(res.removedItems) = 1
    /\ res.removedItems[1].reason = "Quantity reduced (available stock)"
    /\ \E cart \in StoredCarts :
          /\ Len(cart.items) = 2
          /\ \E i \in DOMAIN cart.items :
                /\ cart.items[i].title = res.removedItems[1].title
                /\ cart.items[i].quantity = products[cart.items[i].productId].stock
                /\ cart.items[i].quantity < MaxStock

\* the sum of priceAtAdd * quantity over the items of the coupon's applicable
\* set, and the discount rounded from it, as the claims state them
ApplicableSubtotal(coupon, cartItems) ==
    LET Applicable(item) == item.productId \in coupon.applicableProducts
    IN SeqSum(ItemTotals(SelectSeq(cartItems, Applicable)))

RoundedDiscount(coupon, cartItems) ==
    MathRoundDiv100(ApplicableSubtotal(coupon, cartItems) * coupon.discountValue)

\* C8: getCart on a cart with a coupon whose items are not all pruned: if
\* the live coupon is missing or not valid, the coupon is removed and
\* reported; if it is valid and the discount recomputed over the remaining
\* items is 0, the coupon is removed and reported as having no applicable
\* products; in both cases the read succeeds and the stored cart has no
\* coupon and totalDiscount 0.
C8_GetCartDropsDeadCoupon ==
    [][\A u \in RequestUserIds, s \in RequestSessionIds :
          (res'.op = "getCart" /\ CartKeyOf(u, s) # "" /\ getCart(u, s)) =>
             LET key == CartKeyOf(u, s)
                 cart == getOrCreateCart(u, s)
                 remaining == getCart_validateItems(cart.items).validItems
                 live == Coupon_findOne(cart.coupon.code)
                 RemovedAs(reason) ==
                     /\ res'.status = 200
                     /\ carts'[key].coupon = Null
                     /\ carts'[key].totalDiscount = 0
                     /\ \E j \in DOMAIN res'.removedItems :
                           res'.removedItems[j] =
                              [title |-> "Coupon", reason |-> reason]
             IN (cart.coupon # Null /\ Len(remaining) > 0) =>
                   IF live = Null \/ ~Coupon_isValid(live, now)
                   THEN RemovedAs("Coupon expired or invalid")
                   ELSE RoundedDiscount(live, remaining) = 0 =>
                           RemovedAs("No applicable products in cart")
      ]_vars

\* C9: applyCoupon checks, in this order, cart non-empty, coupon code exists,
\* coupon valid, coupon applicable to a cart product, computed discount
\* non-zero, and answers with the reason of the first check that fails; a
\* request that fails a check stores nothing, so a zero computed discount is
\* rejected with the zero-discount reason.
C9_ApplyCouponCheckOrder ==
    [][\A u \in RequestUserIds, s \in RequestSessionIds,
          c \in RequestCodes \ {""} :
          (res'.op = "applyCoupon" /\ CartKeyOf(u, s) # ""
             /\ applyCoupon(u, s, c)) =>
             LET cart == getOrCreateCart(u, s)
                 live == Coupon_findOne(toUpperCase(c))
                 Rejected(status, message) ==
                     /\ res'.status = status
                     /\ res'.message = message
                     /\ carts' = carts
             IN IF Len(cart.items) = 0
                THEN Rejected(400, "Cannot apply coupon to empty cart")
                ELSE IF live = Null
                THEN Rejected(404, "Invalid coupon code")
                ELSE IF ~Coupon_isValid(live, now)
                THEN Rejected(400, "Coupon is expired or inactive")
                ELSE IF \A i \in DOMAIN cart.items :
                           cart.items[i].productId \notin live.applicableProducts
                THEN Rejected(400,
                       "Coupon is not applicable to any products in your cart")
                ELSE IF RoundedDiscount(live, cart.items) = 0
                THEN Rejected(400,
                       "Coupon cannot be applied to current cart items")
                ELSE TRUE
      ]_vars

\* C10: calculateDiscount returns a record {discountAmount,
\* applicableSubtotal, applicableItems}; for a valid coupon applicableSubtotal
\* sums priceAtAdd * quantity over the items of the applicable set and
\* discountAmount = round(applicableSubtotal * discountValue / 100); for an
\* invalid coupon or applicableSubtotal 0 the returned discountAmount is 0.
C10_CalculateDiscountRecord ==
    calc.fn = "calculateDiscount" =>
        LET valid == Coupon_isValid(calc.coupon, now)
            sub == ApplicableSubtotal(calc.coupon, calc.cartItems)
        IN /\ calc.result.type = "object"
           /\ valid =>
                /\ calc.result.applicableSubtotal = sub
                /\ calc.result.discountAmount = RoundedDiscount(calc.coupon, calc.cartItems)
           /\ (~valid \/ sub = 0) => calc.result.discountAmount = 0

\* C11: isValid returns true exactly when the coupon is active, now lies in
\* [startDate, endDate] and (maxUsage is null or usageCount < maxUsage), so a
\* coupon with maxUsage = 0 is never valid; the call changes no coupon field.
C11_IsValidIff ==
    calc.fn = "isValid" =>
        /\ calc.result <=>
              /\ calc.coupon.isActive
              /\ calc.coupon.startDate <= now /\ now <= calc.coupon.endDate
              /\ \/ calc.coupon.maxUsage = NullNum
                 \/ calc.coupon.usageCount < calc.coupon.maxUsage
        /\ calc.coupon.maxUsage = 0 => ~calc.result
        /\ calc.after = calc.coupon

\* C12: after removeItem on a cart with an applied coupon, the coupon is
\* cleared if the cart is now empty or no remaining item's productId is in
\* the snapshot's applicableProducts, and kept otherwise; the totals are
\* recomputed, a cleared coupon giving totalDiscount = 0 and finalTotal =
\* subtotal.
C12_RemoveItemCoupon ==
    [][\A u \in UserIds, i \in ItemIds :
          (/\ res'.op = "removeCartItem" /\ res'.status = 200
           /\ carts[u] # Null
           /\ removeCartItem(u, "", i)
           /\ carts[u].coupon # Null)
          => LET before == carts[u]
                 after == carts'[u]
                 remaining == SelectSeq(before.items, LAMBDA it : it.id # i)
                 applicable ==
                     \E k \in 1 .. Len(remaining) :
                         remaining[k].productId
                             \in before.coupon.applicableProducts
             IN /\ after.items = remaining
                /\ after.coupon = IF remaining = <<>> \/ ~applicable
                                  THEN Null ELSE before.coupon
                /\ after.subtotal =
                     SeqSum([k \in 1 .. Len(remaining) |->
                               remaining[k].priceAtAdd * remaining[k].quantity])
                /\ after.coupon = Null =>
                     after.totalDiscount = 0 /\ after.finalTotal = after.subtotal
                /\ after.coupon # Null =>
                     /\ after.totalDiscount = after.coupon.discountAmount
                     /\ after.finalTotal =
                          Max(0, after.subtotal - after.totalDiscount)]_vars

\* a removal that kept the coupon, although the live coupon no longer
\* applies to any item of the cart
C12_Witness ==
    /\ res.op = "removeCartItem" /\ res.status = 200
    /\ carts["u1"].coupon # Null
    /\ carts["u1"].items # <<>>
    /\ coupons["SAVE"] # Null
    /\ coupons["SAVE"].applicableProducts = {"p2"}
    /\ \A k \in 1 .. Len(carts["u1"].items) :
          carts["u1"].items[k].productId = "p1"

\* C13: A.mergeWith(B) keeps A's items in place, a product of both carts
\* with quantity = A's + B's (not capped by stock) and B's priceAtAdd, a
\* product of A alone unchanged; appends B's items of products A lacks, in
\* B's order; clears A's coupon; and recomputes the totals, totalDiscount 0.
ProductsIn(items) == {items[k].productId : k \in 1 .. Len(items)}

C13_MergeWith ==
    calc.fn = "mergeWith" =>
        LET A == calc.cart.items
            B == calc.otherCart.items
            R == calc.result.items
            onlyInB == SelectSeq(B, LAMBDA it : it.productId \notin ProductsIn(A))
        IN /\ Len(R) = Len(A) + Len(onlyInB)
           /\ \A k \in 1 .. Len(A) :
                 IF A[k].productId \in ProductsIn(B)
                 THEN \E j \in 1 .. Len(B) :
                         /\ B[j].productId = A[k].productId
                         /\ R[k] = [A[k] EXCEPT
                                      !.quantity = A[k].quantity + B[j].quantity,
                                      !.priceAtAdd = B[j].priceAtAdd]
                 ELSE R[k] = A[k]
           /\ SubSeq(R, Len(A) + 1, Len(R)) = onlyInB
           /\ calc.result.coupon = Null
           /\ calc.result.totalDiscount = 0
           /\ calc.result.subtotal =
                SeqSum([k \in 1 .. Len(R) |-> R[k].priceAtAdd * R[k].quantity])
           /\ calc.result.finalTotal = calc.result.subtotal

\* a merge of two carts with a common product at different prices and a sum
\* above the stock, a product of B alone, and a coupon on A
C13_Witness ==
    /\ calc.fn = "mergeWith"
    /\ calc.cart.coupon # Null
    /\ Len(calc.cart.items) = 1 /\ Len(calc.otherCart.items) = 2
    /\ calc.cart.items[1].productId = "p1"
    /\ calc.otherCart.items[1].productId = "p2"
    /\ calc.cart.items[1].priceAtAdd # calc.otherCart.items[2].priceAtAdd
    /\ calc.result.items[1].quantity > MaxStock

\* C14: a merge of a non-empty guest cart succeeds whatever the user cart
\* holds (an item whose product now has stock 0 included); afterwards every
\* item of the stored user cart has quantity <= its product's live stock, no
\* guest item of an inactive or out-of-stock product was merged, the user
\* cart has no coupon and the guest session has no cart record.
C14_MergeSucceeds ==
    [][\A u \in UserIds, g \in SessionIds :
          (/\ res'.op = "mergeCart"
           /\ carts[g] # Null
           /\ mergeCart(u, g)
           /\ carts[g].items # <<>>)
          => /\ res'.status = 200
             /\ carts'[u] # Null
             /\ \A k \in 1 .. Len(carts'[u].items) :
                   carts'[u].items[k].quantity
                       <= products[carts'[u].items[k].productId].stock
             /\ \A j \in 1 .. Len(carts[g].items) :
                   LET p == carts[g].items[j].productId
                   IN (/\ ~products[p].isActive \/ products[p].stock = 0
                       /\ carts[u] # Null => p \notin ProductsIn(carts[u].items))
                      => p \notin ProductsIn(carts'[u].items)
             /\ carts'[u].coupon = Null
             /\ carts'[g] = Null]_vars

\* C15: no request changes the priceAtAdd of an item already in a cart
\* (addToCart on a product whose price has changed included), except a merge,
\* which overwrites it with the priceAtAdd of the merged-in cart's item.
C15_PriceAtAddFrame ==
    [][\A key \in CartKeys :
          (carts' # carts /\ carts[key] # Null /\ carts'[key] # Null)
          => \A i \in 1 .. Len(carts[key].items),
                j \in 1 .. Len(carts'[key].items) :
                 carts[key].items[i].id = carts'[key].items[j].id
                 => \/ carts'[key].items[j].priceAtAdd
                         = carts[key].items[i].priceAtAdd
                    \/ /\ res'.op = "mergeCart"
                       /\ \E g \in SessionIds :
                             /\ carts[g] # Null /\ carts'[g] = Null
                             /\ \E m \in 1 .. Len(carts[g].items) :
                                   /\ carts[g].items[m].productId
                                        = carts[key].items[i].productId
                                   /\ carts'[key].items[j].priceAtAdd
                                        = carts[g].items[m].priceAtAdd]_vars

\* an addToCart that raised the quantity of an item whose product's price
\* has changed since it was added
C15_Witness ==
    /\ res.op = "addToCart" /\ res.status = 200
    /\ carts["g1"] = Null
    /\ products["p1"].price = 0
    /\ Len(carts["u1"].items) = 1
    /\ carts["u1"].items[1].productId = "p1"
    /\ carts["u1"].items[1].priceAtAdd = 4

\* C16: an admin create, update or delete of a coupon leaves every stored
\* cart as it was; a stored cart (its coupon snapshot and totals included)
\* changes only in a cart request.
CartOps ==
    {"addToCart", "getCart", "updateCartItem", "removeCartItem", "clearCart",
     "mergeCart", "applyCoupon", "removeCoupon"}

C16_CouponAdminFrame ==
    [][/\ res'.op \in {"createCoupon", "updateCoupon", "deleteCoupon"}
          => carts' = carts
       /\ carts' # carts => res'.op \in CartOps]_vars

\* the coupon has just been deleted and the cart still carries its snapshot
C16_Witness ==
    /\ res.op = "deleteCoupon"
    /\ coupons["SAVE"] = Null
    /\ carts["u1"] # Null
    /\ carts["u1"].coupon # Null
    /\ carts["u1"].coupon.code = "SAVE"
    /\ carts["u1"].totalDiscount > 0

C18_RemoveItemTwice ==
    [][\A u \in UserIds, i \in ItemIds :
          (/\ res'.op = "removeCartItem" /\ res'.status = 200
           /\ removeCartItem(u, "", i))
          => /\ removeCartItemResult(u, "", i)'.carts = carts'
             /\ Cart_removeItem(carts'[u], i) = carts'[u]]_vars

\* an item has just been removed from a cart that still holds another item
\* and a coupon
C18_Witness ==
    /\ res.op = "removeCartItem" /\ res.status = 200
    /\ carts["u1"].items # <<>>
    /\ carts["u1"].coupon # Null

\* C19: from any cart state and for any item of the cart, updateItem with
\* quantity 0 stores the same cart (items, coupon snapshot with its
\* discountAmount, totals) as removeItem on that item.
C19_UpdateZeroIsRemove ==
    \A u \in UserIds, i \in ItemIds :
        (carts[u] # Null /\ HasItem(carts[u], i))
        => updateCartItemResult(u, "", i, 0).carts
             = removeCartItemResult(u, "", i).carts

\* C20: a cart request that answers a failure (validation error, not found,
\* insufficient stock, unavailable product, invalid or inapplicable coupon,
\* empty cart, no coupon to remove) leaves the cart store as it was: no cart
\* is created, modified or deleted.
C20_FailureLeavesStore ==
    [][(res'.op \in CartOps /\ res'.status # 200) => carts' = carts]_vars

\* an apply-coupon request on a non-empty cart has just been refused because
\* the coupon is expired or inactive
C20_Witness ==
    /\ res.op = "applyCoupon" /\ res.status = 400
    /\ res.message = "Coupon is expired or inactive"
    /\ carts["u1"] # Null
    /\ carts["u1"].items # <<>>

\* C21: addToCart or updateItem on a product that exists but is inactive is
\* answered with a business-rule failure of its own: not a success, not the
\* not-found answer, not the insufficient-stock answer and not the status-500
\* answer of the handler's catch-all used for unexpected failures.
C21_ProductUnavailableOutcome ==
    [][/\ \A u \in UserIds, p \in ProductIds, q \in 1 .. (MaxStock + 1) :
             (/\ res'.op = "addToCart"
              /\ ~products[p].isActive
              /\ addToCart(u, "", p, q))
             => /\ res'.status \notin {200, 404, 500}
                /\ res'.message # "Only units available"
       /\ \A u \in UserIds, i \in ItemIds, q \in 1 .. (MaxStock + 1) :
             (/\ res'.op = "updateCartItem"
              /\ carts[u] # Null
              /\ HasItem(carts[u], i)
              /\ ~products[ItemById(carts[u], i).productId].isActive
              /\ updateCartItem(u, "", i, q))
             => /\ res'.status \notin {200, 404, 500}
                /\ res'.message # "Only units available"]_vars

\* C22: the cart collection holds at most one cart document per identity
\* (per userId and per guest sessionId), also when two first requests of one
\* identity overlap and both find no cart.
DocumentsOf(key) ==
    {i \in DOMAIN collection : collection[i].key = key /\ ~collection[i].deleted}

C22_OneCartPerIdentity ==
    \A key \in CartKeys : Cardinality(DocumentsOf(key)) <= 1

\* C23: when two requests on the same cart overlap (each has loaded the cart
\* before the other saves), neither is rejected, and once both have saved the
\* identity's stored cart is the one the last saver computed from the
\* snapshot it loaded, the first saver's change being lost.
C23_LastWriteWins ==
    [][\A c \in Clients, d \in Clients :
          (/\ c # d
           /\ inflight[c].pc = "loaded" /\ inflight[d].pc = "loaded"
           /\ inflight[c].key = inflight[d].key
           /\ conc_addToCart_save(c))
          => LET last == inflight[d]
                 after == SaveDocument(last.id, last.key, last.cart)'
                 stored == {i \in DOMAIN after :
                              after[i].key = last.key /\ ~after[i].deleted}
             IN /\ inflight'[c].status = 200
                /\ SchemaValid(last.cart)
                /\ stored # {}
                /\ \A i \in stored : after[i].cart = last.cart
                /\ Cardinality(stored) = 1]_vars

\* the outcomes (stored carts and answer) a cart route can have for the
\* identity (userId, sessionId)
CartResults(userId, sessionId) ==
    {addToCartResult(userId, sessionId, p, q) :
        p \in AuthProductIds, q \in AuthQuantities}
      \cup {updateCartItemResult(userId, sessionId, NewItemId(p), q) :
               p \in AuthProductIds, q \in AuthQuantities}
      \cup {removeCartItemResult(userId, sessionId, NewItemId(p)) :
               p \in AuthProductIds}
      \cup {applyCouponResult(userId, sessionId, code) : code \in AuthCodes}
      \cup {getCartResult(userId, sessionId),
            clearCartResult(userId, sessionId),
            removeCouponResult(userId, sessionId)}

\* C24: a cart request whose bearer token does not verify and that carries a
\* session id is not rejected for authentication and is processed as the
\* guest of that session id: its outcome is the outcome of the route for the
\* guest identity, and no cart but that guest's changes; a request whose
\* token verifies is processed as the token's user, and no cart but that
\* user's changes, whatever session id it carries.
C24_InvalidTokenIsGuest ==
    [][\A c \in AuthClients :
          (inflight[c].pc = "authenticated" /\ inflight'[c].pc = "served")
          => LET token == inflight[c].authorization.token
                 s == inflight[c].sessionId
                 verified == jwt_verify(token)
             IN /\ (token # NoToken /\ verified.threw /\ s \in SessionIds)
                   => /\ res'.status \notin {401, 403}
                      /\ \A k \in CartKeys \ {s} : carts'[k] = carts[k]
                      /\ \E r \in CartResults("", s) :
                            carts' = r.carts /\ res' = r.res
                /\ (token # NoToken /\ ~verified.threw)
                   => /\ \A k \in CartKeys \ {token.id} : carts'[k] = carts[k]
                      /\ \E r \in CartResults(token.id, "") :
                            carts' = r.carts /\ res' = r.res]_vars

\* C24 witness: a request with a forged token naming u1 and the session id g1
\* has added to the cart of g1 while u1 has a cart of its own.
C24_Witness ==
    \E c \in AuthClients :
        /\ inflight[c].pc = "served"
        /\ inflight[c].authorization.token = ForgedToken("u1")
        /\ inflight[c].sessionId = "g1"
        /\ res.op = "addToCart" /\ res.status = 200
        /\ carts["g1"] # Null /\ carts["u1"] # Null
        /\ carts["g1"] # carts["u1"]

\* C25: every coupon of the coupon directory has a non-empty set of
\* applicable products.
C25_ApplicableProductsNonEmpty ==
    \A code \in DOMAIN coupons :
        coupons[code] # Null => coupons[code].applicableProducts # {}

C27_SnapshotDiscountIsCurrent ==
    \A cart \in StoredCarts :
        cart.coupon # Null
        => /\ cart.coupon.discountAmount
                = RoundedDiscount(cart.coupon, cart.items)
           /\ cart.totalDiscount <= cart.subtotal

\* C28: a successful addToCart on a cart with an applied coupon keeps the
\* coupon, with its discount recomputed over the resulting items, whenever
\* the live coupon exists, is valid and some item of the resulting cart is in
\* its applicable set, whether or not the product just added is.
C28_AddKeepsApplicableCoupon ==
    [][\A key \in CartKeys :
          (/\ res'.op = "addToCart" /\ res'.status = 200
           /\ carts[key] # Null /\ carts[key].coupon # Null
           /\ carts'[key] # carts[key])
          => LET coupon == Coupon_findOne(carts[key].coupon.code)
                 after == carts'[key]
             IN (/\ coupon # Null
                 /\ Coupon_isValid(coupon, now)
                 /\ \E i \in DOMAIN after.items :
                       after.items[i].productId \in coupon.applicableProducts)
                => /\ after.coupon # Null
                   /\ after.coupon.discountAmount
                        = RoundedDiscount(coupon, after.items)]_vars

\* the units of a product held by the cart documents of the collection
RECURSIVE UnitsHeld(_, _)
UnitsHeld(docs, productId) ==
    IF docs = {} THEN 0
    ELSE LET i == CHOOSE d \in docs : TRUE
         IN ExistingQuantity(collection[i].cart, productId)
              + UnitsHeld(docs \ {i}, productId)

\* C29: whatever the interleaving of two merges of the same guest session
\* (and of a merge with a guest addToCart), once every request has answered
\* the carts hold no more units of a product than were added to carts (a
\* guest item's quantity reaches the user's cart at most once), and when
\* both clients have last completed a merge no cart record remains for the
\* guest session.
C29_GuestItemsMergedOnce ==
    (\A c \in Clients : inflight[c].pc = "idle")
    => /\ \A p \in ProductIds :
             UnitsHeld(UNION {DocumentsOf(key) : key \in CartKeys}, p)
                <= unitsAdded[p]
       /\ (\A c \in Clients :
               inflight[c].op = "mergeCart" /\ inflight[c].status = 200)
          => \A g \in SessionIds : DocumentsOf(g) = {}

====
